---- MODULE Spec2Model ----
(***************************************************************************)
(* Verification model of the AI-Commerce Intelligence Platform:            *)
(*   - the relational schema with its row-level-security policies,         *)
(*     CHECK / NOT NULL / FOREIGN KEY constraints and cascades;            *)
(*   - the client-side session store (login, register, logout, fetchUser,  *)
(*     persisted under 'auth-storage');                                    *)
(*   - the protected dashboard layout and the dashboard page.              *)
(***************************************************************************)
EXTENDS Integers, Sequences, FiniteSets, Bags, TLC

VARIABLES
    \* ---- database tables (sets of rows) ----
    users, products, cities, forecasts, agent_logs,
    subscriptions, payments, deep_reports, api_keys,
    response,         \* outcome of the last SQL statement, as the client sees it
    \* ---- session store (zustand state of useAuthStore) ----
    user, isAuthenticated, isLoading,
    \* ---- localStorage ----
    access_token, refresh_token,
    authStorage,      \* the 'auth-storage' entry: <<>> (absent) or <<partialized state>>
    \* ---- requests in flight and promises ----
    pending,          \* bag of the store calls whose request is in flight
    settled,          \* the promise the last step settled (call "none": none)
    loadedFrom,       \* "initial" or "storage": how this page load created the store
    batch,            \* bookkeeping on the current set of overlapping calls
    \* ---- dashboard layout ----
    mounted, screen, lastPush,
    \* ---- dashboard page (the page's useState cells) ----
    pageMounted,      \* the dashboard page is on screen
    pageProducts,     \* products
    pageForecasts,    \* forecasts
    pageLoading,      \* loading
    pageData          \* "none", or how the last load ended: "ok" / "error"

tableVars == <<users, products, cities, forecasts, agent_logs,
               subscriptions, payments, deep_reports, api_keys>>

dbVars == <<tableVars, response>>

storeVars == <<user, isAuthenticated, isLoading, access_token, refresh_token,
               authStorage, pending, settled, loadedFrom, batch>>

layoutVars == <<mounted, screen, lastPush>>

pageVars == <<pageMounted, pageProducts, pageForecasts, pageLoading, pageData>>

vars == <<dbVars, storeVars, layoutVars, pageVars>>

(***************************************************************************)
(* Value universes                                                         *)
(***************************************************************************)
NULL == "NULL"

NumProducts == 2
NumForecasts == 1

UserIds == {"u1", "u2"}
ProductIds == 1..NumProducts
ForecastIds == 1..NumForecasts
CityIds == {"c1"}
LogIds == {"l1"}
SubscriptionIds == {"s1"}
PaymentIds == {"pay1"}
ReportIds == {"r1"}
KeyIds == {"k1"}
Names == {"tea", "mug"}

\* A nullable INTEGER column holds <<>> (SQL NULL) or <<n>>.
NullInt == <<>>
Val(n) == <<n>>
IsNull(x) == x = NullInt

\* Integer values a statement may try to store in a score column.
ScoreProbes == {NullInt, Val(-1), Val(0), Val(100), Val(101)}
SalesProbes == {NullInt, Val(5)}
StatusProbes == {"pending", "processing", "completed", "failed", "done", NULL}

(***************************************************************************)
(* Requesters: the database role of a request and its auth.uid()           *)
(***************************************************************************)
Authenticated(u) == [role |-> "authenticated", uid |-> u]
Anon == [role |-> "anon", uid |-> NULL]
ServiceRole == [role |-> "service_role", uid |-> NULL]

AuthenticatedRequesters == {Authenticated(u) : u \in UserIds}
Clients == AuthenticatedRequesters \cup {Anon}
Requesters == Clients \cup {ServiceRole}

\* The service role (table owner) is not subject to row level security.
BypassRLS(req) == req.role = "service_role"

(***************************************************************************)
(* Row level security policies, one operator per CREATE POLICY             *)
(***************************************************************************)
UsersCanReadOwnProfile(req, row) ==
    req.role = "authenticated" /\ req.uid = row.id

UsersCanReadOwnProducts(req, row) ==
    req.role = "authenticated" /\ req.uid = row.user_id

UsersCanInsertOwnProducts(req, row) ==
    req.role = "authenticated" /\ req.uid = row.user_id

UsersCanUpdateOwnProductsUsing(req, row) ==
    req.role = "authenticated" /\ req.uid = row.user_id

UsersCanUpdateOwnProductsCheck(req, row) ==
    req.role = "authenticated" /\ req.uid = row.user_id

UsersCanDeleteOwnProducts(req, row) ==
    req.role = "authenticated" /\ req.uid = row.user_id

AnyoneCanReadCities(req, row) ==
    req.role = "authenticated" /\ TRUE

UsersCanReadOwnForecasts(req, row) ==
    req.role = "authenticated" /\ req.uid = row.user_id

UsersCanInsertOwnForecasts(req, row) ==
    req.role = "authenticated" /\ req.uid = row.user_id

UsersCanUpdateOwnForecastsUsing(req, row) ==
    req.role = "authenticated" /\ req.uid = row.user_id

UsersCanUpdateOwnForecastsCheck(req, row) ==
    req.role = "authenticated" /\ req.uid = row.user_id

UsersCanReadLogsForOwnForecasts(req, row) ==
    /\ req.role = "authenticated"
    /\ \E f \in forecasts :
          /\ UsersCanReadOwnForecasts(req, f)   \* the sub-select runs under RLS too
          /\ f.id = row.forecast_id
          /\ f.user_id = req.uid

UsersCanReadOwnSubscription(req, row) ==
    req.role = "authenticated" /\ req.uid = row.user_id

\* Mutant: the policy written USING (true).
UsersCanReadOwnPaymentsAnyUser(req, row) ==
    req.role = "authenticated"

UsersCanReadOwnPayments(req, row) ==
    req.role = "authenticated" /\ req.uid = row.user_id

UsersCanReadOwnDeepReports(req, row) ==
    req.role = "authenticated" /\ req.uid = row.user_id

UsersCanReadOwnApiKeys(req, row) ==
    req.role = "authenticated" /\ req.uid = row.user_id

UsersCanInsertOwnApiKeys(req, row) ==
    req.role = "authenticated" /\ req.uid = row.user_id

UsersCanUpdateOwnApiKeysUsing(req, row) ==
    req.role = "authenticated" /\ req.uid = row.user_id

UsersCanUpdateOwnApiKeysCheck(req, row) ==
    req.role = "authenticated" /\ req.uid = row.user_id

UsersCanDeleteOwnApiKeys(req, row) ==
    req.role = "authenticated" /\ req.uid = row.user_id

(***************************************************************************)
(* SELECT * FROM <table>, as seen by a requester                           *)
(***************************************************************************)
SelectUsers(req) ==
    {r \in users : BypassRLS(req) \/ UsersCanReadOwnProfile(req, r)}

SelectProducts(req) ==
    {r \in products : BypassRLS(req) \/ UsersCanReadOwnProducts(req, r)}

SelectCities(req) ==
    {r \in cities : BypassRLS(req) \/ AnyoneCanReadCities(req, r)}

SelectForecasts(req) ==
    {r \in forecasts : BypassRLS(req) \/ UsersCanReadOwnForecasts(req, r)}

SelectAgentLogs(req) ==
    {r \in agent_logs : BypassRLS(req) \/ UsersCanReadLogsForOwnForecasts(req, r)}

SelectSubscriptions(req) ==
    {r \in subscriptions : BypassRLS(req) \/ UsersCanReadOwnSubscription(req, r)}

SelectPayments(req) ==
    {r \in payments : BypassRLS(req) \/ UsersCanReadOwnPayments(req, r)}

SelectDeepReports(req) ==
    {r \in deep_reports : BypassRLS(req) \/ UsersCanReadOwnDeepReports(req, r)}

SelectApiKeys(req) ==
    {r \in api_keys : BypassRLS(req) \/ UsersCanReadOwnApiKeys(req, r)}

(***************************************************************************)
(* Statement outcomes                                                      *)
(***************************************************************************)
\* cmd and table name the statement, col the optional column it names
\* ("none": none), status its outcome.
Resp(cmd, table, col, status) ==
    [cmd |-> cmd, table |-> table, col |-> col, status |-> status]

NoResponse == Resp("none", "none", "none", "none")

\* The statement fails (or touches no row): every table keeps its rows.
Reject(cmd, table, col, status) ==
    /\ response' = Resp(cmd, table, col, status)
    /\ UNCHANGED tableVars

Ids(table) == {r.id : r \in table}

(***************************************************************************)
(* Column constraints of forecasts                                         *)
(***************************************************************************)
ForecastStatuses == {"pending", "processing", "completed", "failed"}

\* Mutant: another DEFAULT for status.
DefaultStatusProcessing == "processing"

DefaultStatus == "pending"

DefaultScore == NullInt

\* Mutant: the upper limit off by one.
ScoreCheckOffByOne(x) == IsNull(x) \/ (x[1] >= 0 /\ x[1] <= 101)

\* CHECK (x >= 0 AND x <= 100): a NULL makes the CHECK unknown, which passes.
ScoreCheck(x) == IsNull(x) \/ (x[1] >= 0 /\ x[1] <= 100)

\* CHECK (status IN (...)): unknown for NULL, which passes; NOT NULL rejects it.
StatusCheck(s) == s = NULL \/ s \in ForecastStatuses

StatusNotNull(s) == s # NULL

ForecastNotNull(row) == StatusNotNull(row.status)

ForecastChecks(row) ==
    /\ ScoreCheck(row.demand_score)
    /\ ScoreCheck(row.competition_index)
    /\ ScoreCheck(row.profitability_score)
    /\ StatusCheck(row.status)

\* Mutant: product_id declared without REFERENCES products(id).
ForecastForeignKeysNoProduct(row) ==
    /\ row.user_id \in Ids(users)
    /\ row.target_city_id \in Ids(cities)

\* FOREIGN KEYs of forecasts: users(id), products(id), cities(id).
ForecastForeignKeys(row) ==
    /\ row.user_id \in Ids(users)
    /\ row.product_id \in Ids(products)
    /\ row.target_city_id \in Ids(cities)

OptionalColumns ==
    {"demand_score", "competition_index", "profitability_score",
     "expected_sales_volume", "status"}

\* Values a statement may supply for a column ("none": no optional column).
Probes(col) ==
    CASE col = "none" -> {NullInt}
      [] col \in {"demand_score", "competition_index", "profitability_score"} -> ScoreProbes
      [] col = "expected_sales_volume" -> SalesProbes
      [] col = "status" -> StatusProbes
      [] col = "user_id" -> UserIds
      [] col = "product_id" -> ProductIds
      [] col = "name" -> Names
      [] col = "is_active" -> BOOLEAN

\* The row INSERT builds: the explicit column takes its value, any other
\* optional column its DEFAULT.
NewForecast(id, uid, pid, cid, col, val) ==
    [id |-> id, user_id |-> uid, product_id |-> pid, target_city_id |-> cid,
     demand_score |-> IF col = "demand_score" THEN val ELSE DefaultScore,
     competition_index |-> IF col = "competition_index" THEN val ELSE DefaultScore,
     profitability_score |-> IF col = "profitability_score" THEN val ELSE DefaultScore,
     expected_sales_volume |-> IF col = "expected_sales_volume" THEN val ELSE NullInt,
     status |-> IF col = "status" THEN val ELSE DefaultStatus]

\* UPDATE ... SET col = val on one row.
SetColumn(row, col, val) == [row EXCEPT ![col] = val]

(***************************************************************************)
(* ON DELETE CASCADE                                                       *)
(***************************************************************************)
\* Rows of forecasts that go when the products rows with ids gone go.
ForecastsOfProducts(gone) == {f \in forecasts : f.product_id \in gone}

CascadeForecasts(goneForecasts) ==
    /\ forecasts' = forecasts \ goneForecasts
    /\ agent_logs' = {l \in agent_logs : l.forecast_id \notin Ids(goneForecasts)}
    /\ deep_reports' = {d \in deep_reports : d.forecast_id \notin Ids(goneForecasts)}

(***************************************************************************)
(* Statements on products                                                  *)
(***************************************************************************)
InsertProduct(req, uid, name) ==
    /\ UNCHANGED <<storeVars, layoutVars, pageVars>>
    /\ \E id \in ProductIds \ Ids(products) :
           LET row == [id |-> id, user_id |-> uid, name |-> name] IN
           IF ~(BypassRLS(req) \/ UsersCanInsertOwnProducts(req, row))
           THEN Reject("INSERT", "products", "none", "rls_violation")
           ELSE IF uid \notin Ids(users)
           THEN Reject("INSERT", "products", "none", "fk_violation")
           ELSE /\ products' = products \cup {row}
                /\ response' = Resp("INSERT", "products", "none", "ok")
                /\ UNCHANGED <<users, cities, forecasts, agent_logs, subscriptions,
                               payments, deep_reports, api_keys>>

UpdateProduct(req, id, col, val) ==
    /\ UNCHANGED <<storeVars, layoutVars, pageVars>>
    /\ LET target == {r \in products :
                         /\ r.id = id
                         /\ BypassRLS(req) \/ UsersCanUpdateOwnProductsUsing(req, r)}
           updated == {SetColumn(r, col, val) : r \in target}
       IN
       IF target = {}
       THEN Reject("UPDATE", "products", col, "no_rows")
       ELSE IF \E r \in updated : ~(BypassRLS(req) \/ UsersCanUpdateOwnProductsCheck(req, r))
       THEN Reject("UPDATE", "products", col, "rls_violation")
       ELSE IF \E r \in updated : r.user_id \notin Ids(users)
       THEN Reject("UPDATE", "products", col, "fk_violation")
       ELSE /\ products' = (products \ target) \cup updated
            /\ response' = Resp("UPDATE", "products", col, "ok")
            /\ UNCHANGED <<users, cities, forecasts, agent_logs, subscriptions,
                           payments, deep_reports, api_keys>>

DeleteProduct(req, id) ==
    /\ UNCHANGED <<storeVars, layoutVars, pageVars>>
    /\ LET target == {r \in products :
                         /\ r.id = id
                         /\ BypassRLS(req) \/ UsersCanDeleteOwnProducts(req, r)}
       IN
       IF target = {}
       THEN Reject("DELETE", "products", "none", "no_rows")
       ELSE /\ products' = products \ target
            /\ CascadeForecasts(ForecastsOfProducts(Ids(target)))
            /\ response' = Resp("DELETE", "products", "none", "ok")
            /\ UNCHANGED <<users, cities, subscriptions, payments, api_keys>>

(***************************************************************************)
(* Statements on forecasts                                                 *)
(***************************************************************************)
InsertForecast(req, uid, pid, cid, col, val) ==
    /\ UNCHANGED <<storeVars, layoutVars, pageVars>>
    /\ \E id \in ForecastIds \ Ids(forecasts) :
           LET row == NewForecast(id, uid, pid, cid, col, val) IN
           IF ~(BypassRLS(req) \/ UsersCanInsertOwnForecasts(req, row))
           THEN Reject("INSERT", "forecasts", col, "rls_violation")
           ELSE IF ~ForecastNotNull(row)
           THEN Reject("INSERT", "forecasts", col, "not_null_violation")
           ELSE IF ~ForecastChecks(row)
           THEN Reject("INSERT", "forecasts", col, "check_violation")
           ELSE IF ~ForecastForeignKeys(row)
           THEN Reject("INSERT", "forecasts", col, "fk_violation")
           ELSE /\ forecasts' = forecasts \cup {row}
                /\ response' = Resp("INSERT", "forecasts", col, "ok")
                /\ UNCHANGED <<users, products, cities, agent_logs, subscriptions,
                               payments, deep_reports, api_keys>>

UpdateForecast(req, id, col, val) ==
    /\ UNCHANGED <<storeVars, layoutVars, pageVars>>
    /\ LET target == {r \in forecasts :
                         /\ r.id = id
                         /\ BypassRLS(req) \/ UsersCanUpdateOwnForecastsUsing(req, r)}
           updated == {SetColumn(r, col, val) : r \in target}
       IN
       IF target = {}
       THEN Reject("UPDATE", "forecasts", col, "no_rows")
       ELSE IF \E r \in updated : ~(BypassRLS(req) \/ UsersCanUpdateOwnForecastsCheck(req, r))
       THEN Reject("UPDATE", "forecasts", col, "rls_violation")
       ELSE IF \E r \in updated : ~ForecastNotNull(r)
       THEN Reject("UPDATE", "forecasts", col, "not_null_violation")
       ELSE IF \E r \in updated : ~ForecastChecks(r)
       THEN Reject("UPDATE", "forecasts", col, "check_violation")
       ELSE IF \E r \in updated : ~ForecastForeignKeys(r)
       THEN Reject("UPDATE", "forecasts", col, "fk_violation")
       ELSE /\ forecasts' = (forecasts \ target) \cup updated
            /\ response' = Resp("UPDATE", "forecasts", col, "ok")
            /\ UNCHANGED <<users, products, cities, agent_logs, subscriptions,
                           payments, deep_reports, api_keys>>

\* forecasts has no DELETE policy: under RLS no row qualifies.
DeleteForecast(req, id) ==
    /\ UNCHANGED <<storeVars, layoutVars, pageVars>>
    /\ LET target == {r \in forecasts : r.id = id /\ BypassRLS(req)} IN
       IF target = {}
       THEN Reject("DELETE", "forecasts", "none", "no_rows")
       ELSE /\ CascadeForecasts(target)
            /\ response' = Resp("DELETE", "forecasts", "none", "ok")
            /\ UNCHANGED <<users, products, cities, subscriptions, payments, api_keys>>

(***************************************************************************)
(* Statements on api_keys                                                  *)
(***************************************************************************)
InsertApiKey(req, uid) ==
    /\ UNCHANGED <<storeVars, layoutVars, pageVars>>
    /\ \E id \in KeyIds \ Ids(api_keys) :
           LET row == [id |-> id, user_id |-> uid, is_active |-> TRUE] IN
           IF ~(BypassRLS(req) \/ UsersCanInsertOwnApiKeys(req, row))
           THEN Reject("INSERT", "api_keys", "none", "rls_violation")
           ELSE IF uid \notin Ids(users)
           THEN Reject("INSERT", "api_keys", "none", "fk_violation")
           ELSE /\ api_keys' = api_keys \cup {row}
                /\ response' = Resp("INSERT", "api_keys", "none", "ok")
                /\ UNCHANGED <<users, products, cities, forecasts, agent_logs,
                               subscriptions, payments, deep_reports>>

UpdateApiKey(req, id, col, val) ==
    /\ UNCHANGED <<storeVars, layoutVars, pageVars>>
    /\ LET target == {r \in api_keys :
                         /\ r.id = id
                         /\ BypassRLS(req) \/ UsersCanUpdateOwnApiKeysUsing(req, r)}
           updated == {SetColumn(r, col, val) : r \in target}
       IN
       IF target = {}
       THEN Reject("UPDATE", "api_keys", col, "no_rows")
       ELSE IF \E r \in updated : ~(BypassRLS(req) \/ UsersCanUpdateOwnApiKeysCheck(req, r))
       THEN Reject("UPDATE", "api_keys", col, "rls_violation")
       ELSE IF \E r \in updated : r.user_id \notin Ids(users)
       THEN Reject("UPDATE", "api_keys", col, "fk_violation")
       ELSE /\ api_keys' = (api_keys \ target) \cup updated
            /\ response' = Resp("UPDATE", "api_keys", col, "ok")
            /\ UNCHANGED <<users, products, cities, forecasts, agent_logs,
                           subscriptions, payments, deep_reports>>

DeleteApiKey(req, id) ==
    /\ UNCHANGED <<storeVars, layoutVars, pageVars>>
    /\ LET target == {r \in api_keys :
                         /\ r.id = id
                         /\ BypassRLS(req) \/ UsersCanDeleteOwnApiKeys(req, r)}
       IN
       IF target = {}
       THEN Reject("DELETE", "api_keys", "none", "no_rows")
       ELSE /\ api_keys' = api_keys \ target
            /\ response' = Resp("DELETE", "api_keys", "none", "ok")
            /\ UNCHANGED <<users, products, cities, forecasts, agent_logs,
                           subscriptions, payments, deep_reports>>

(***************************************************************************)
(* Inserts into the tables that have no INSERT policy: under RLS every     *)
(* row is refused, so only the service role gets one in.                   *)
(***************************************************************************)
InsertUser(req, id) ==
    /\ UNCHANGED <<storeVars, layoutVars, pageVars>>
    /\ IF ~BypassRLS(req)
       THEN Reject("INSERT", "users", "none", "rls_violation")
       ELSE /\ id \notin Ids(users)
            /\ users' = users \cup {[id |-> id]}
            /\ response' = Resp("INSERT", "users", "none", "ok")
            /\ UNCHANGED <<products, cities, forecasts, agent_logs, subscriptions,
                           payments, deep_reports, api_keys>>

InsertCity(req, id) ==
    /\ UNCHANGED <<storeVars, layoutVars, pageVars>>
    /\ IF ~BypassRLS(req)
       THEN Reject("INSERT", "cities", "none", "rls_violation")
       ELSE /\ id \notin Ids(cities)
            /\ cities' = cities \cup {[id |-> id]}
            /\ response' = Resp("INSERT", "cities", "none", "ok")
            /\ UNCHANGED <<users, products, forecasts, agent_logs, subscriptions,
                           payments, deep_reports, api_keys>>

InsertAgentLog(req, fid) ==
    /\ UNCHANGED <<storeVars, layoutVars, pageVars>>
    /\ \E id \in LogIds \ Ids(agent_logs) :
           IF ~BypassRLS(req)
           THEN Reject("INSERT", "agent_logs", "none", "rls_violation")
           ELSE IF fid \notin Ids(forecasts)
           THEN Reject("INSERT", "agent_logs", "none", "fk_violation")
           ELSE /\ agent_logs' = agent_logs \cup {[id |-> id, forecast_id |-> fid]}
                /\ response' = Resp("INSERT", "agent_logs", "none", "ok")
                /\ UNCHANGED <<users, products, cities, forecasts, subscriptions,
                               payments, deep_reports, api_keys>>

InsertSubscription(req, uid) ==
    /\ UNCHANGED <<storeVars, layoutVars, pageVars>>
    /\ \E id \in SubscriptionIds \ Ids(subscriptions) :
           IF ~BypassRLS(req)
           THEN Reject("INSERT", "subscriptions", "none", "rls_violation")
           ELSE IF \E s \in subscriptions : s.user_id = uid
           THEN Reject("INSERT", "subscriptions", "none", "unique_violation")
           ELSE IF uid \notin Ids(users)
           THEN Reject("INSERT", "subscriptions", "none", "fk_violation")
           ELSE /\ subscriptions' = subscriptions \cup {[id |-> id, user_id |-> uid]}
                /\ response' = Resp("INSERT", "subscriptions", "none", "ok")
                /\ UNCHANGED <<users, products, cities, forecasts, agent_logs,
                               payments, deep_reports, api_keys>>

InsertPayment(req, uid) ==
    /\ UNCHANGED <<storeVars, layoutVars, pageVars>>
    /\ \E id \in PaymentIds \ Ids(payments) :
           IF ~BypassRLS(req)
           THEN Reject("INSERT", "payments", "none", "rls_violation")
           ELSE IF uid \notin Ids(users)
           THEN Reject("INSERT", "payments", "none", "fk_violation")
           ELSE /\ payments' = payments \cup {[id |-> id, user_id |-> uid]}
                /\ response' = Resp("INSERT", "payments", "none", "ok")
                /\ UNCHANGED <<users, products, cities, forecasts, agent_logs,
                               subscriptions, deep_reports, api_keys>>

InsertDeepReport(req, fid, uid) ==
    /\ UNCHANGED <<storeVars, layoutVars, pageVars>>
    /\ \E id \in ReportIds \ Ids(deep_reports) :
           IF ~BypassRLS(req)
           THEN Reject("INSERT", "deep_reports", "none", "rls_violation")
           ELSE IF fid \notin Ids(forecasts) \/ uid \notin Ids(users)
           THEN Reject("INSERT", "deep_reports", "none", "fk_violation")
           ELSE /\ deep_reports' = deep_reports
                                     \cup {[id |-> id, forecast_id |-> fid, user_id |-> uid]}
                /\ response' = Resp("INSERT", "deep_reports", "none", "ok")
                /\ UNCHANGED <<users, products, cities, forecasts, agent_logs,
                               subscriptions, payments, api_keys>>

(***************************************************************************)
(* Session store: server responses                                         *)
(***************************************************************************)
MaxInFlight == 2

\* The bodies a successful POST /api/v1/auth/login may carry.
LoginData ==
    [L1 |-> [access_token |-> "a1", refresh_token |-> "r1"],
     L2 |-> [access_token |-> "a2", refresh_token |-> "r2"]]

LoginResponses == DOMAIN LoginData

\* GET /api/v1/auth/me fails or carries a user.
MeResponses == {"fail"} \cup UserIds

\* The responses a call will get, fixed when the call is made
\* ("-": the request is never sent).
LoginPlans ==
    {[register |-> "-", login |-> "fail", me |-> "-"]}
    \cup {[register |-> "-", login |-> l, me |-> m] : l \in LoginResponses, m \in MeResponses}

RegisterPlans ==
    {[register |-> "fail", login |-> "-", me |-> "-"]}
    \cup {[register |-> "ok", login |-> p.login, me |-> p.me] : p \in LoginPlans}

FetchPlans ==
    {[register |-> "-", login |-> "-", me |-> m] : m \in MeResponses}

\* Nothing remembered of the state a call was made in.
NoBefore ==
    [user |-> "-", isAuthenticated |-> FALSE, access_token |-> "-", refresh_token |-> "-"]

\* What the store and localStorage hold when login() is called.
Before(call) ==
    IF call = "login"
    THEN [user |-> user, isAuthenticated |-> isAuthenticated,
          access_token |-> access_token, refresh_token |-> refresh_token]
    ELSE NoBefore

\* A call in flight: which request it waits for (stage) and by whom it was made.
Request(call, by, stage, plan) ==
    [call |-> call, by |-> by, stage |-> stage,
     register |-> plan.register, login |-> plan.login, me |-> plan.me,
     alone |-> TRUE, before |-> Before(call)]

NoSettled ==
    [call |-> "none", outcome |-> "none", alone |-> FALSE, login |-> "-", me |-> "-",
     before |-> NoBefore]

Settled(r, outcome) ==
    [call |-> r.call, outcome |-> outcome, alone |-> r.alone, login |-> r.login, me |-> r.me,
     before |-> r.before]

InFlight == BagCardinality(pending)

\* Another store operation ran while the calls of bag were in flight.
Interleave(bag) ==
    LET marked(r) == [r EXCEPT !.alone = FALSE] IN
    [x \in {marked(r) : r \in BagToSet(bag)} |->
        CopiesIn(x, bag) + CopiesIn([x EXCEPT !.alone = TRUE], bag)]

Others(r) == Interleave(pending (-) SetToBag({r}))

(***************************************************************************)
(* Bookkeeping on a set of overlapping calls: what the store would hold    *)
(* if the calls completed one after the other in the order they were made  *)
(***************************************************************************)
EmptyBatch ==
    [open |-> TRUE, valid |-> TRUE, n |-> 0, me |-> "-",
     expUser |-> "-", expLoading |-> "-", expToken |-> "-"]

\* A call was made after a request of the set had resolved: not a set of
\* overlapping calls.
InvalidBatch ==
    [open |-> FALSE, valid |-> FALSE, n |-> 0, me |-> "-",
     expUser |-> "-", expLoading |-> "-", expToken |-> "-"]

MergeMe(old, m) ==
    IF m = "-" \/ old = m THEN old ELSE IF old = "-" THEN m ELSE "mixed"

\* The /me response the call receives, "-" if it sends no /me request.
MeOf(call, plan) ==
    IF call = "fetchUser" \/ plan.login \in LoginResponses THEN plan.me ELSE "-"

BatchAdd(b, call, plan) ==
    [open |-> TRUE, valid |-> TRUE,
     n |-> IF b.n < MaxInFlight THEN b.n + 1 ELSE b.n,
     me |-> MergeMe(b.me, MeOf(call, plan)),
     expUser |-> IF call = "fetchUser"
                 THEN (IF plan.me = "fail" THEN NULL ELSE plan.me)
                 ELSE IF plan.login \in LoginResponses /\ plan.me \in UserIds
                 THEN plan.me
                 ELSE b.expUser,
     expLoading |-> IF call = "fetchUser" THEN b.expLoading ELSE "false",
     expToken |-> IF call # "fetchUser" /\ plan.login \in LoginResponses
                  THEN plan.login
                  ELSE b.expToken]

\* A call is made while pend is in flight.
BatchIssue(b, pend, call, plan) ==
    IF BagCardinality(pend) = 0 THEN BatchAdd(EmptyBatch, call, plan)
    ELSE IF b.valid /\ b.open THEN BatchAdd(b, call, plan)
    ELSE InvalidBatch

\* A request of the set resolved.
BatchResolve(b) == IF b.valid THEN [b EXCEPT !.open = FALSE] ELSE b

BatchLogout(b, pend) ==
    IF BagCardinality(pend) = 0 THEN EmptyBatch
    ELSE IF b.valid /\ b.open THEN b
    ELSE InvalidBatch

(***************************************************************************)
(* Dashboard layout                                                        *)
(***************************************************************************)
\* A layout that returns its children whatever isAuthenticated is.
RenderAlways(auth) == "children"

\* What DashboardLayout returns.
Render(auth) == IF ~auth THEN "null" ELSE "children"

\* The layout's effect, run with the store holding isAuthenticated = auth and
\* pend in flight: router.push('/login'), or fetchUser().
Effect(auth, pend, b) ==
    IF ~auth
    THEN /\ lastPush' = "/login"
         /\ pending' = pend
         /\ batch' = b
    ELSE /\ lastPush' = lastPush
         /\ \E fp \in FetchPlans :
               /\ pending' = Interleave(pend) (+) SetToBag({Request("fetchUser", "layout", "me", fp)})
               /\ batch' = BatchIssue(b, pend, "fetchUser", fp)

\* The store now holds isAuthenticated = auth: a mounted layout renders again
\* and, if isAuthenticated changed, its effect runs again.
LayoutReact(auth, pend, b) ==
    IF ~mounted
    THEN /\ pending' = pend
         /\ batch' = b
         /\ UNCHANGED layoutVars
    ELSE /\ mounted' = TRUE
         /\ screen' = Render(auth)
         /\ IF auth = isAuthenticated
            THEN pending' = pend /\ batch' = b /\ lastPush' = lastPush
            ELSE Effect(auth, pend, b)

(***************************************************************************)
(* Session store: set() under the persist middleware                       *)
(***************************************************************************)
\* A partialize that keeps user only: isAuthenticated comes back as the
\* initial state's false.
PartializeUserOnly(u, auth) == [user |-> u, isAuthenticated |-> FALSE]

\* partialize: the part of the state written to 'auth-storage'.
Partialize(u, auth) == [user |-> u, isAuthenticated |-> auth]

\* One step of the store: the new state, localStorage and calls in flight.
\* persisted: the step called set(), so the middleware rewrote the entry.
Commit(u, auth, loading, at, rt, pend, sett, persisted, b) ==
    /\ user' = u
    /\ isAuthenticated' = auth
    /\ isLoading' = loading
    /\ access_token' = at
    /\ refresh_token' = rt
    /\ authStorage' = IF persisted THEN <<Partialize(u, auth)>> ELSE authStorage
    /\ settled' = sett
    /\ loadedFrom' = loadedFrom
    /\ LayoutReact(auth, pend, b)
    /\ UNCHANGED <<dbVars, pageVars>>

(***************************************************************************)
(* Session store: login, register, logout, fetchUser                       *)
(***************************************************************************)
\* login(): set({isLoading: true}) and POST /api/v1/auth/login goes out.
Login(plan) ==
    /\ InFlight < MaxInFlight
    /\ Commit(user, isAuthenticated, TRUE, access_token, refresh_token,
              Interleave(pending) (+) SetToBag({Request("login", "app", "login", plan)}),
              NoSettled, TRUE, BatchIssue(batch, pending, "login", plan))

\* register(): set({isLoading: true}) and POST /api/v1/auth/register goes out.
Register(plan) ==
    /\ InFlight < MaxInFlight
    /\ Commit(user, isAuthenticated, TRUE, access_token, refresh_token,
              Interleave(pending) (+) SetToBag({Request("register", "app", "register", plan)}),
              NoSettled, TRUE, BatchIssue(batch, pending, "register", plan))

\* fetchUser(): GET /api/v1/auth/me goes out.
FetchUser(plan) ==
    /\ InFlight < MaxInFlight
    /\ Commit(user, isAuthenticated, isLoading, access_token, refresh_token,
              Interleave(pending) (+) SetToBag({Request("fetchUser", "app", "me", plan)}),
              NoSettled, FALSE, BatchIssue(batch, pending, "fetchUser", plan))

\* A logout whose set() leaves user out.
LogoutKeepsUser ==
    Commit(user, FALSE, isLoading, NULL, NULL,
           Interleave(pending), NoSettled, TRUE, BatchLogout(batch, pending))

\* logout(): both tokens removed, set({user: null, isAuthenticated: false}).
Logout ==
    Commit(NULL, FALSE, isLoading, NULL, NULL,
           Interleave(pending), NoSettled, TRUE, BatchLogout(batch, pending))

\* A catch block that also signs the user out.
CaughtSignsOut == [user |-> NULL, isAuthenticated |-> FALSE, isLoading |-> FALSE]

\* The state after a catch block ran set({isLoading: false}).
Caught == [user |-> user, isAuthenticated |-> isAuthenticated, isLoading |-> FALSE]

\* POST /api/v1/auth/register resolves: on success register() calls login(),
\* on failure its catch sets isLoading to false and rethrows.
ResolveRegister(r) ==
    /\ r \in BagToSet(pending)
    /\ r.stage = "register"
    /\ IF r.register = "ok"
       THEN Commit(user, isAuthenticated, TRUE, access_token, refresh_token,
                   Others(r) (+) SetToBag({[r EXCEPT !.stage = "login"]}),
                   NoSettled, TRUE, BatchResolve(batch))
       ELSE Commit(Caught.user, Caught.isAuthenticated, Caught.isLoading,
                   access_token, refresh_token,
                   Others(r), Settled(r, "register_error"), TRUE, BatchResolve(batch))

\* The two setItem calls with their values exchanged.
StoredTokensSwapped(l) ==
    [access_token |-> LoginData[l].refresh_token,
     refresh_token |-> LoginData[l].access_token]

\* The tokens login() stores from the response.
StoredTokens(l) ==
    [access_token |-> LoginData[l].access_token,
     refresh_token |-> LoginData[l].refresh_token]

\* POST /api/v1/auth/login resolves: on success both tokens are stored and
\* GET /api/v1/auth/me goes out; on failure the catch sets isLoading to false
\* and rethrows (through register's catch too, when register made the call).
ResolveLogin(r) ==
    /\ r \in BagToSet(pending)
    /\ r.stage = "login"
    /\ IF r.login \in LoginResponses
       THEN Commit(user, isAuthenticated, isLoading,
                   StoredTokens(r.login).access_token, StoredTokens(r.login).refresh_token,
                   Others(r) (+) SetToBag({[r EXCEPT !.stage = "me"]}),
                   NoSettled, FALSE, BatchResolve(batch))
       ELSE Commit(Caught.user, Caught.isAuthenticated, Caught.isLoading,
                   access_token, refresh_token,
                   Others(r), Settled(r, "login_error"), TRUE, BatchResolve(batch))

\* The state login() sets once /me has answered.
LoggedIn(data) == [user |-> data, isAuthenticated |-> TRUE, isLoading |-> FALSE]

\* GET /api/v1/auth/me resolves for login() (or register()'s login()).
ResolveLoginMe(r) ==
    /\ r \in BagToSet(pending)
    /\ r.stage = "me"
    /\ r.call \in {"login", "register"}
    /\ IF r.me \in UserIds
       THEN Commit(LoggedIn(r.me).user, LoggedIn(r.me).isAuthenticated,
                   LoggedIn(r.me).isLoading, access_token, refresh_token,
                   Others(r), Settled(r, "resolved"), TRUE, BatchResolve(batch))
       ELSE Commit(Caught.user, Caught.isAuthenticated, Caught.isLoading,
                   access_token, refresh_token,
                   Others(r), Settled(r, "me_error"), TRUE, BatchResolve(batch))

\* GET /api/v1/auth/me resolves for fetchUser(): the catch swallows the error.
ResolveFetchUser(r) ==
    /\ r \in BagToSet(pending)
    /\ r.stage = "me"
    /\ r.call = "fetchUser"
    /\ IF r.me \in UserIds
       THEN Commit(r.me, TRUE, isLoading, access_token, refresh_token,
                   Others(r), Settled(r, "resolved"), TRUE, BatchResolve(batch))
       ELSE Commit(NULL, FALSE, isLoading, access_token, refresh_token,
                   Others(r), Settled(r, "resolved"), TRUE, BatchResolve(batch))

(***************************************************************************)
(* Page reload: the store is created again and rehydrated                  *)
(***************************************************************************)
\* The initial state merged with the 'auth-storage' entry, if there is one.
Rehydrated ==
    IF authStorage = <<>>
    THEN [user |-> NULL, isAuthenticated |-> FALSE, isLoading |-> FALSE]
    ELSE [user |-> authStorage[1].user,
          isAuthenticated |-> authStorage[1].isAuthenticated,
          isLoading |-> FALSE]

\* The page is loaded again: requests in flight are gone, localStorage stays;
\* a dashboard page mounts its layout again (first render and effect).
Reload ==
    /\ user' = Rehydrated.user
    /\ isAuthenticated' = Rehydrated.isAuthenticated
    /\ isLoading' = Rehydrated.isLoading
    /\ loadedFrom' = IF authStorage = <<>> THEN "initial" ELSE "storage"
    /\ settled' = NoSettled
    /\ UNCHANGED <<access_token, refresh_token, authStorage, dbVars, pageVars>>
    /\ IF ~mounted
       THEN /\ pending' = EmptyBag
            /\ batch' = EmptyBatch
            /\ UNCHANGED layoutVars
       ELSE /\ mounted' = TRUE
            /\ screen' = Render(Rehydrated.isAuthenticated)
            /\ IF Rehydrated.isAuthenticated
               THEN /\ lastPush' = "none"
                    /\ \E fp \in FetchPlans :
                          /\ pending' = SetToBag({Request("fetchUser", "layout", "me", fp)})
                          /\ batch' = BatchIssue(EmptyBatch, EmptyBag, "fetchUser", fp)
               ELSE /\ lastPush' = "/login"
                    /\ pending' = EmptyBag
                    /\ batch' = EmptyBatch

(***************************************************************************)
(* Dashboard layout: mount, logout button, navigation                      *)
(***************************************************************************)
\* A dashboard route is entered: first render, then the effect.
MountLayout ==
    /\ ~mounted
    /\ isAuthenticated => InFlight < MaxInFlight
    /\ mounted' = TRUE
    /\ screen' = Render(isAuthenticated)
    /\ settled' = NoSettled
    /\ Effect(isAuthenticated, pending, batch)
    /\ UNCHANGED <<user, isAuthenticated, isLoading, access_token, refresh_token,
                   authStorage, loadedFrom, dbVars, pageVars>>

\* handleLogout: logout(), router.push('/'); the render that follows returns
\* null and its effect pushes '/login'.
HandleLogout ==
    /\ mounted
    /\ screen = "children"
    /\ Logout

\* A pushed navigation completes: the dashboard layout is left.
CompleteNavigation ==
    /\ mounted
    /\ lastPush # "none"
    /\ mounted' = FALSE
    /\ screen' = "none"
    /\ lastPush' = "none"
    /\ settled' = NoSettled
    /\ UNCHANGED <<user, isAuthenticated, isLoading, access_token, refresh_token,
                   authStorage, pending, loadedFrom, batch, dbVars, pageVars>>

(***************************************************************************)
(* Dashboard page (Supabase variant): loadDashboardData and the cards      *)
(***************************************************************************)
MaxCatalog == 6

\* The ids a catalog grows into: enough rows to exceed the page's limit.
CatalogIds == 1..MaxCatalog

\* .limit(5) of both dashboard queries.
DashboardLimit == 5

\* INSERT INTO products by a client for a catalog of any size (the statement
\* of InsertProduct, its id drawn from CatalogIds).
InsertCatalogProduct(req, uid) ==
    /\ UNCHANGED <<storeVars, layoutVars, pageVars>>
    /\ \E id \in CatalogIds \ Ids(products) :
           LET row == [id |-> id, user_id |-> uid, name |-> "tea"] IN
           IF ~(BypassRLS(req) \/ UsersCanInsertOwnProducts(req, row))
           THEN Reject("INSERT", "products", "none", "rls_violation")
           ELSE IF uid \notin Ids(users)
           THEN Reject("INSERT", "products", "none", "fk_violation")
           ELSE /\ products' = products \cup {row}
                /\ response' = Resp("INSERT", "products", "none", "ok")
                /\ UNCHANGED <<users, cities, forecasts, agent_logs, subscriptions,
                               payments, deep_reports, api_keys>>

\* .limit(n) with no ORDER BY: any n of the rows, all of them if fewer.
Limit(rows, n) ==
    {s \in SUBSET rows :
        Cardinality(s) = IF Cardinality(rows) < n THEN Cardinality(rows) ELSE n}

\* supabase.from('products').select('*').eq('user_id', user?.id).limit(5),
\* run as the signed-in user.
DashboardProductsQuery ==
    Limit({r \in SelectProducts(Authenticated(user)) : r.user_id = user}, DashboardLimit)

\* supabase.from('forecasts').select('*').eq('user_id', user?.id).limit(5)
DashboardForecastsQuery ==
    Limit({r \in SelectForecasts(Authenticated(user)) : r.user_id = user}, DashboardLimit)

\* The number in the 'Total Products' card: products.length.
TotalProductsCard == Cardinality(pageProducts)

\* The page mounts: useState initial values; the effect starts
\* loadDashboardData when there is a user.
MountDashboard ==
    /\ ~pageMounted
    /\ pageMounted' = TRUE
    /\ pageProducts' = {}
    /\ pageForecasts' = {}
    /\ pageLoading' = TRUE
    /\ pageData' = "none"
    /\ UNCHANGED <<dbVars, storeVars, layoutVars>>

\* loadDashboardData completes: both queries answered (data set) or failed
\* (data null, the cells keep their values); finally setLoading(false).
LoadDashboardData ==
    /\ pageMounted /\ pageLoading
    /\ user # NULL
    /\ \/ \E ps \in DashboardProductsQuery, fs \in DashboardForecastsQuery :
             /\ pageProducts' = ps
             /\ pageForecasts' = fs
             /\ pageData' = "ok"
       \/ /\ pageData' = "error"
          /\ UNCHANGED <<pageProducts, pageForecasts>>
    /\ pageLoading' = FALSE
    /\ pageMounted' = pageMounted
    /\ UNCHANGED <<dbVars, storeVars, layoutVars>>

\* The user leaves the dashboard page.
LeaveDashboard ==
    /\ pageMounted
    /\ pageMounted' = FALSE
    /\ pageProducts' = {}
    /\ pageForecasts' = {}
    /\ pageLoading' = FALSE
    /\ pageData' = "none"
    /\ UNCHANGED <<dbVars, storeVars, layoutVars>>

(***************************************************************************)
(* Initial states                                                          *)
(***************************************************************************)
InitPage ==
    /\ pageMounted = FALSE
    /\ pageProducts = {}
    /\ pageForecasts = {}
    /\ pageLoading = FALSE
    /\ pageData = "none"

InitStore ==
    /\ user = NULL
    /\ isAuthenticated = FALSE
    /\ isLoading = FALSE
    /\ access_token = NULL
    /\ refresh_token = NULL
    /\ authStorage = <<>>
    /\ pending = EmptyBag
    /\ settled = NoSettled
    /\ loadedFrom = "initial"
    /\ batch = EmptyBatch

InitLayout ==
    /\ mounted = FALSE
    /\ screen = "none"
    /\ lastPush = "none"

(***************************************************************************)
(* The database after the migration: every table empty                     *)
(***************************************************************************)
InitTables ==
    /\ users = {} /\ products = {} /\ cities = {} /\ forecasts = {}
    /\ agent_logs = {} /\ subscriptions = {} /\ payments = {}
    /\ deep_reports = {} /\ api_keys = {}
    /\ response = NoResponse

Init == InitTables /\ InitStore /\ InitLayout /\ InitPage

\* Registration and seeding, done by the backend under the service role
\* (attempted by every requester).
SetupStmts(req) ==
    \/ \E id \in UserIds : InsertUser(req, id)
    \/ \E id \in CityIds : InsertCity(req, id)

\* Statements that decide who owns which row of products, forecasts, api_keys.
OwnershipStmts(req) ==
    \/ \E uid \in UserIds : InsertProduct(req, uid, "tea")
    \/ \E id \in ProductIds, uid \in UserIds : UpdateProduct(req, id, "user_id", uid)
    \/ \E id \in ProductIds : DeleteProduct(req, id)
    \/ \E uid \in UserIds, pid \in ProductIds, cid \in CityIds :
          InsertForecast(req, uid, pid, cid, "none", NullInt)
    \/ \E id \in ForecastIds, col \in {"user_id", "product_id"} :
          \E val \in Probes(col) : UpdateForecast(req, id, col, val)
    \/ \E id \in ForecastIds : DeleteForecast(req, id)
    \/ \E uid \in UserIds : InsertApiKey(req, uid)
    \/ \E id \in KeyIds, uid \in UserIds : UpdateApiKey(req, id, "user_id", uid)
    \/ \E id \in KeyIds : DeleteApiKey(req, id)

\* Statements that change the payload columns of products and api_keys.
PayloadStmts(req) ==
    \/ \E uid \in UserIds : InsertProduct(req, uid, "mug")
    \/ \E id \in ProductIds, name \in Names : UpdateProduct(req, id, "name", name)
    \/ \E id \in KeyIds, val \in BOOLEAN : UpdateApiKey(req, id, "is_active", val)

\* Inserts into the tables that are only read through RLS.
BackOfficeStmts(req) ==
    \/ \E fid \in ForecastIds : InsertAgentLog(req, fid)
    \/ \E uid \in UserIds : InsertSubscription(req, uid)
    \/ \E uid \in UserIds : InsertPayment(req, uid)
    \/ \E fid \in ForecastIds, uid \in UserIds : InsertDeepReport(req, fid, uid)

\* Statements that give the optional columns of a forecast a value.
ForecastValueStmts(req) ==
    \/ \E uid \in UserIds, pid \in ProductIds, cid \in CityIds, col \in OptionalColumns :
          \E val \in Probes(col) : InsertForecast(req, uid, pid, cid, col, val)
    \/ \E id \in ForecastIds, col \in OptionalColumns :
          \E val \in Probes(col) : UpdateForecast(req, id, col, val)

\* Row visibility: all nine tables, every statement that creates a row or
\* moves its ownership, by every requester.
NextRLS ==
    \E req \in Requesters :
        \/ SetupStmts(req)
        \/ OwnershipStmts(req)
        \/ BackOfficeStmts(req)

SpecRLS == Init /\ [][NextRLS]_vars

\* Writes on products, forecasts and api_keys, payload columns included.
NextWrite ==
    \E req \in Requesters :
        \/ SetupStmts(req)
        \/ OwnershipStmts(req)
        \/ PayloadStmts(req)

SpecWrite == Init /\ [][NextWrite]_vars

\* The life of a forecast row: its defaults and its column constraints.
NextForecast ==
    \E req \in Requesters :
        \/ SetupStmts(req)
        \/ \E uid \in UserIds : InsertProduct(req, uid, "tea")
        \/ \E uid \in UserIds, pid \in ProductIds, cid \in CityIds :
              InsertForecast(req, uid, pid, cid, "none", NullInt)
        \/ \E id \in ForecastIds : DeleteForecast(req, id)
        \/ ForecastValueStmts(req)

SpecForecast == Init /\ [][NextForecast]_vars

\* The session store on a page outside the dashboard: calls made at any
\* time, requests resolving in any order, reloads.
NextStore ==
    \/ \E plan \in LoginPlans : Login(plan)
    \/ \E plan \in RegisterPlans : Register(plan)
    \/ \E plan \in FetchPlans : FetchUser(plan)
    \/ Logout
    \/ \E r \in BagToSet(pending) : ResolveRegister(r)
    \/ \E r \in BagToSet(pending) : ResolveLogin(r)
    \/ \E r \in BagToSet(pending) : ResolveLoginMe(r)
    \/ \E r \in BagToSet(pending) : ResolveFetchUser(r)
    \/ Reload

SpecStore == Init /\ [][NextStore]_vars

\* The session store with the dashboard layout: what the store does, plus
\* entering a dashboard route, the logout button and pushed navigations.
NextLayout ==
    \/ NextStore
    \/ MountLayout
    \/ HandleLogout
    \/ CompleteNavigation

SpecLayout == Init /\ [][NextLayout]_vars

\* A page load of a signed-in session: both users registered, the store
\* rehydrated from the entry a resolved login left, nothing in flight.
InitDashboard ==
    /\ users = {[id |-> id] : id \in UserIds}
    /\ products = {} /\ cities = {} /\ forecasts = {}
    /\ agent_logs = {} /\ subscriptions = {} /\ payments = {}
    /\ deep_reports = {} /\ api_keys = {}
    /\ response = NoResponse
    /\ \E u \in UserIds, l \in LoginResponses :
          /\ user = LoggedIn(u).user
          /\ isAuthenticated = LoggedIn(u).isAuthenticated
          /\ access_token = StoredTokens(l).access_token
          /\ refresh_token = StoredTokens(l).refresh_token
          /\ authStorage = <<Partialize(user, isAuthenticated)>>
    /\ isLoading = FALSE
    /\ pending = EmptyBag
    /\ settled = NoSettled
    /\ loadedFrom = "storage"
    /\ batch = EmptyBatch
    /\ InitLayout
    /\ InitPage

\* The dashboard page over a growing catalog: every client adds products,
\* the page is entered, loads and is left.
NextDashboard ==
    \/ \E uid \in UserIds : InsertCatalogProduct(Authenticated(uid), uid)
    \/ MountDashboard
    \/ LoadDashboardData
    \/ LeaveDashboard

SpecDashboard == InitDashboard /\ [][NextDashboard]_vars

(***************************************************************************)
(* Properties of the database                                              *)
(***************************************************************************)

\* C1 (read isolation): whatever the tables hold, a SELECT issued by an
\* authenticated user a returns no row owned by another user b from users,
\* products, forecasts, subscriptions, payments, deep_reports or api_keys,
\* and no agent_logs row whose forecast is owned by b.
ReadIsolation ==
    \A a \in UserIds : \A b \in UserIds \ {a} :
        LET req == Authenticated(a) IN
        /\ \A r \in SelectUsers(req) : r.id # b
        /\ \A r \in SelectProducts(req) : r.user_id # b
        /\ \A r \in SelectForecasts(req) : r.user_id # b
        /\ \A r \in SelectSubscriptions(req) : r.user_id # b
        /\ \A r \in SelectPayments(req) : r.user_id # b
        /\ \A r \in SelectDeepReports(req) : r.user_id # b
        /\ \A r \in SelectApiKeys(req) : r.user_id # b
        /\ \A l \in SelectAgentLogs(req) :
              \A f \in forecasts : f.id = l.forecast_id => f.user_id # b

\* A state where b owns a row in every table and a still reads rows of its own.
ReadIsolationWitness ==
    \E a \in UserIds : \E b \in UserIds \ {a} :
        /\ SelectProducts(Authenticated(a)) # {}
        /\ SelectUsers(Authenticated(a)) # {}
        /\ [id |-> b] \in users
        /\ \E r \in products : r.user_id = b
        /\ \E f \in forecasts : f.user_id = b /\ \E l \in agent_logs : l.forecast_id = f.id
        /\ \E r \in subscriptions : r.user_id = b
        /\ \E r \in payments : r.user_id = b
        /\ \E r \in deep_reports : r.user_id = b
        /\ \E r \in api_keys : r.user_id = b

\* C9 (cities are public): every cities row is returned to every client,
\* authenticated or not.
CitiesArePublic ==
    \A req \in Clients : SelectCities(req) = cities

\* The rows of products, forecasts and api_keys that user b owns.
OwnedBy(b) ==
    <<{r \in products : r.user_id = b},
      {r \in forecasts : r.user_id = b},
      {r \in api_keys : r.user_id = b}>>

\* An INSERT, UPDATE or DELETE on products, forecasts or api_keys.
ClientWrite(req) == OwnershipStmts(req) \/ PayloadStmts(req)

\* C2 (write isolation): a statement an authenticated user a issues on
\* products, forecasts or api_keys creates, modifies or deletes no row owned
\* by another user b, and hands none of a's rows to b.
WriteIsolation ==
    [][\A a \in UserIds :
          ClientWrite(Authenticated(a)) =>
              \A b \in UserIds \ {a} : OwnedBy(b)' = OwnedBy(b)]_vars

\* C10 (products come before forecasts): every forecasts row references an
\* existing products row, also right after a product was deleted.
ForecastsReferenceProducts ==
    \A f \in forecasts : \E p \in products : p.id = f.product_id

\* A product was just deleted and a forecast (of another product) is left.
ForecastsReferenceProductsWitness ==
    /\ response = Resp("DELETE", "products", "none", "ok")
    /\ forecasts # {}

ValueColumns ==
    {"demand_score", "competition_index", "profitability_score", "expected_sales_volume"}

\* The rows a step adds to forecasts.
Inserted == {f \in forecasts' : f.id \notin Ids(forecasts)}

\* C7 as stated (a forecast starts as a pending request): a row inserted
\* without an explicit status has status 'pending' and null demand_score,
\* competition_index, profitability_score and expected_sales_volume.
ForecastStartsPendingAsStated ==
    [][\A f \in Inserted :
          response'.col # "status" =>
              /\ f.status = "pending"
              /\ \A c \in ValueColumns : IsNull(f[c])]_vars

\* C7 as amended: a row inserted without an explicit status has status
\* 'pending', and each of the four value columns the INSERT does not name is
\* null.
ForecastStartsPending ==
    [][\A f \in Inserted :
          response'.col # "status" =>
              /\ f.status = "pending"
              /\ \A c \in ValueColumns \ {response'.col} : IsNull(f[c])]_vars

\* An INSERT that names demand_score only went through: the row is pending,
\* its other value columns are null.
ForecastStartsPendingWitness ==
    /\ response = Resp("INSERT", "forecasts", "demand_score", "ok")
    /\ \E f \in forecasts :
          /\ f.status = "pending"
          /\ f.demand_score = Val(0)
          /\ \A c \in ValueColumns \ {"demand_score"} : IsNull(f[c])

\* A well-formed forecasts row.
WellFormed(row) ==
    /\ row.status \in ForecastStatuses
    /\ \A c \in {"demand_score", "competition_index", "profitability_score"} :
          IsNull(row[c]) \/ row[c][1] \in 0..100

\* The outcomes of a statement that a column constraint refused.
ConstraintViolations == {"check_violation", "not_null_violation"}

\* C8 (forecast row well-formedness): every forecasts row has a status among
\* pending/processing/completed/failed and scores that are null or in 0..100;
\* an insert or update that would break this is refused (no such row is ever
\* stored) and a refused statement leaves forecasts unchanged.
ForecastWellFormedness ==
    /\ [](\A f \in forecasts : WellFormed(f))
    /\ [][(response'.table = "forecasts" /\ response'.status \in ConstraintViolations)
             => forecasts' = forecasts]_vars

\* A completed forecast with a score of 100 is stored and an UPDATE of it
\* has just been refused by a CHECK constraint.
ForecastWellFormednessWitness ==
    /\ response = Resp("UPDATE", "forecasts", "demand_score", "check_violation")
    /\ \E f \in forecasts : f.status = "completed" /\ f.demand_score = Val(100)

(***************************************************************************)
(* Properties of the session store and the layout                          *)
(***************************************************************************)

\* C3 (protected routes): whenever isAuthenticated is false the layout shows
\* none of its children and, if it is mounted, has pushed '/login'; a
\* fetchUser call the layout has just made was made with isAuthenticated true.
ProtectedRoutes ==
    /\ ~isAuthenticated => screen # "children"
    /\ (mounted /\ ~isAuthenticated) => (screen = "null" /\ lastPush = "/login")
    /\ \A r \in BagToSet(pending) : (r.by = "layout" /\ r.alone) => isAuthenticated

\* The layout is mounted over a session that was logged out: it renders null
\* and the push to '/login' is out.
ProtectedRoutesWitness ==
    /\ mounted /\ ~isAuthenticated
    /\ screen = "null" /\ lastPush = "/login"
    /\ authStorage # <<>> /\ user = NULL

\* C4 (login): when login() resolves and no other store operation ran since
\* it was called, localStorage holds the access_token and refresh_token of
\* the login response, user is the /me response, isAuthenticated is true and
\* isLoading is false.
LoginSucceeds ==
    (settled.call = "login" /\ settled.outcome = "resolved" /\ settled.alone) =>
        /\ access_token = LoginData[settled.login].access_token
        /\ refresh_token = LoginData[settled.login].refresh_token
        /\ user = settled.me
        /\ isAuthenticated
        /\ ~isLoading

\* login() has just resolved, uninterleaved, over a session of another user
\* holding other tokens; another call is still in flight.
LoginSucceedsWitness ==
    /\ settled.call = "login" /\ settled.outcome = "resolved" /\ settled.alone
    /\ settled.login = "L2" /\ settled.me = "u2"
    /\ InFlight = 1

\* C5 (persisted session round trip): a reload leaves user and
\* isAuthenticated as they were and isLoading false.
PersistedRoundTrip ==
    [][Reload =>
          /\ user' = user
          /\ isAuthenticated' = isAuthenticated
          /\ isLoading' = FALSE]_vars

\* The store was rehydrated from the entry of a signed-in session.
PersistedRoundTripWitness ==
    /\ loadedFrom = "storage"
    /\ user = "u1" /\ isAuthenticated /\ ~isLoading
    /\ InFlight = 0 /\ batch = EmptyBatch

\* All the overlapping calls of a set have completed.
Quiescent == InFlight = 0 /\ batch.valid /\ batch.n > 0

\* C6 as stated (not concurrency-sensitive): once a set of overlapping calls
\* has completed, user, isAuthenticated, isLoading and the stored tokens are
\* what they are when the calls complete one after the other in call order,
\* whatever the order the requests resolved in.
OrderIndependence ==
    Quiescent =>
        /\ batch.expUser # "-" =>
              (user = batch.expUser /\ isAuthenticated = (batch.expUser # NULL))
        /\ batch.expLoading # "-" => ~isLoading
        /\ batch.expToken # "-" =>
              /\ access_token = LoginData[batch.expToken].access_token
              /\ refresh_token = LoginData[batch.expToken].refresh_token

\* C12 (isAuthenticated iff user): in every state of the session store,
\* rehydrated ones included, isAuthenticated is true exactly when user is
\* not null (every successful /me response carries a user).
AuthenticatedIffUser == isAuthenticated <=> (user # NULL)

\* A rehydrated signed-in session with two calls in flight, one of them
\* already past another operation.
AuthenticatedIffUserWitness ==
    /\ loadedFrom = "storage"
    /\ isAuthenticated /\ user = "u2"
    /\ InFlight = 2
    /\ \E r \in BagToSet(pending) : ~r.alone

\* login() has just rejected: its POST failed, or its GET /me did.
LoginRejected ==
    /\ settled.call = "login"
    /\ settled.outcome \in {"login_error", "me_error"}

\* C13 (failed login): when login() rejects, the error is that of the request
\* that failed, isLoading is false, the rejecting step leaves user and
\* isAuthenticated as they were, and with no other store operation since the
\* call they are what they were before the call.
FailedLogin ==
    /\ [](LoginRejected =>
             /\ ~isLoading
             /\ (settled.outcome = "login_error") <=> (settled.login = "fail")
             /\ (settled.outcome = "me_error") <=>
                    (settled.login \in LoginResponses /\ settled.me = "fail")
             /\ settled.alone =>
                    (/\ user = settled.before.user
                     /\ isAuthenticated = settled.before.isAuthenticated))
    /\ [][LoginRejected' => (user' = user /\ isAuthenticated' = isAuthenticated)]_vars

\* A login made in the session of u1 has just rejected on its /me request,
\* nothing else having run since the call.
FailedLoginWitness ==
    /\ LoginRejected
    /\ settled.outcome = "me_error" /\ settled.alone
    /\ settled.before.user = "u1" /\ settled.before.isAuthenticated
    /\ user = "u1" /\ isAuthenticated /\ ~isLoading

\* C14 (failed login keeps the credentials): when login() rejects, no other
\* store operation having run since the call, localStorage holds the
\* access_token and refresh_token (or their absence) it held before the call.
FailedLoginKeepsTokens ==
    (LoginRejected /\ settled.alone) =>
        /\ access_token = settled.before.access_token
        /\ refresh_token = settled.before.refresh_token

(***************************************************************************)
(* Properties of the dashboard page                                        *)
(***************************************************************************)

\* C11 (Total Products): when loadDashboardData completes with data, the
\* number in the 'Total Products' card is the number of products rows the
\* signed-in user owns.
TotalProductsIsTotal ==
    [][(pageLoading /\ ~pageLoading' /\ pageData' = "ok") =>
          TotalProductsCard' = Cardinality({r \in products' : r.user_id = user'})]_vars

====
